---- MODULE Spec2Model ----
(***************************************************************************)
(* portcheck: a CLI that tells whether local TCP ports are free or in use. *)
(* The model follows src/main.go: main (argument parsing and validation),  *)
(* checkPort (bind probe), checkPortRange (bounded concurrent fan-out,     *)
(* fan-in over a channel, exchange sort, summary) and the /proc based      *)
(* process resolver (findProcessByPort, searchNetFile, findPIDByInode).    *)
(* Strings that the program takes apart are sequences of one-character     *)
(* strings.                                                                *)
(***************************************************************************)
EXTENDS Integers, Sequences, FiniteSets, TLC

\* ------------------------------------------------------------------------
\* Bounds of the model

\* longest generated port argument (characters)
MaxArgLen == 3

\* largest range (number of ports) whose scan is explored; SpecFair scans
\* every range within 1..MaxPorts
MaxPorts == 3

\* capacity of the semaphore channel; the source uses 100 (main.go:108),
\* the model scales it down so that ranges larger than the ceiling occur
SemCap == 2

\* SpecProbe: number of consecutive checkPort calls
MaxProbes == 2

\* SpecProbe: ports 1..MaxProbePort
MaxProbePort == 3

\* SpecSoft: the ranges within 1..MaxSoftPorts are scanned with -p
MaxSoftPorts == 2

\* SpecResolve: most rows below the header of /proc/net/tcp
MaxRows == 2

\* SpecResolve: most entries of /proc
MaxEntries == 2

\* ------------------------------------------------------------------------
\* Program constants

MinPort == 1

MaxPort == 65535

MinFields == 10

StateListen == "0A"

\* ------------------------------------------------------------------------
\* strings, strconv

Digits == <<"0", "1", "2", "3", "4", "5", "6", "7", "8", "9">>

IsDigit(c) == \E i \in 1..10 : Digits[i] = c

DigitVal(c) == (CHOOSE i \in 1..10 : Digits[i] = c) - 1

RECURSIVE DecVal(_)
DecVal(s) == IF s = <<>> THEN 0
             ELSE 10 * DecVal(SubSeq(s, 1, Len(s) - 1)) + DigitVal(s[Len(s)])

\* strconv.Atoi: optional sign, then one or more decimal digits
Atoi(s) ==
    LET signed == s # <<>> /\ s[1] \in {"+", "-"}
        body   == IF signed THEN Tail(s) ELSE s
        ok     == body # <<>> /\ \A i \in 1..Len(body) : IsDigit(body[i])
        v      == IF ok THEN DecVal(body) ELSE 0
    IN  [err |-> ~ok,
         val |-> IF signed /\ s[1] = "-" THEN 0 - v ELSE v]

\* strings.Contains(s, "-")
Contains(s, c) == \E i \in 1..Len(s) : s[i] = c

\* strings.Split(s, "-")
RECURSIVE Split(_, _)
Split(s, c) ==
    IF ~Contains(s, c) THEN <<s>>
    ELSE LET i == CHOOSE k \in 1..Len(s) :
                      s[k] = c /\ \A m \in 1..(k - 1) : s[m] # c
         IN  <<SubSeq(s, 1, i - 1)>> \o Split(SubSeq(s, i + 1, Len(s)), c)

IsSpace(c) == c \in {" ", "\n", "\t"}

\* strings.TrimSpace
RECURSIVE TrimSpace(_)
TrimSpace(s) ==
    IF s = <<>> THEN s
    ELSE IF IsSpace(s[1]) THEN TrimSpace(Tail(s))
    ELSE IF IsSpace(s[Len(s)]) THEN TrimSpace(SubSeq(s, 1, Len(s) - 1))
    ELSE s

HexDigits == <<"0", "1", "2", "3", "4", "5", "6", "7", "8", "9",
               "A", "B", "C", "D", "E", "F">>

RECURSIVE HexOf(_)
HexOf(n) == IF n < 16 THEN <<HexDigits[n + 1]>>
            ELSE HexOf(n \div 16) \o <<HexDigits[(n % 16) + 1]>>

RECURSIVE PadLeft(_, _)
PadLeft(s, w) == IF Len(s) >= w THEN s ELSE PadLeft(<<"0">> \o s, w)

\* fmt.Sprintf("%04X", port)
portHex(port) == PadLeft(HexOf(port), 4)

\* ------------------------------------------------------------------------
\* Process resolver.  The kernel interfaces are a record fs:
\*   fs.tcp, fs.tcp6 : [readable : BOOLEAN, lines : Seq(line)], lines[1] the
\*                     header; a line is [nfields, local, st, inode] with
\*                     local = fields[1] (characters), st = fields[3],
\*                     inode = fields[9];
\*   fs.procReadable : os.Open("/proc") succeeds;
\*   fs.entries      : Readdirnames of /proc, each
\*                     [name, fdReadable, fds : Seq([ok, link]), commOK, comm]

\* a failed lookup reported as pid -1
NoOwnerNegative == <<0 - 1, <<>>>>

\* return 0, "" (main.go:171, 177, 195, 201, 225)
NoOwner == <<0, <<>>>>

socketLink(inode) == <<"socket:[", inode, "]">>

\* only the first descriptor is looked at
HasLinkFirst(fds, link) == fds # <<>> /\ fds[1].ok /\ fds[1].link = link

\* the inner loop of findPIDByInode over one process's descriptors
HasLink(fds, link) == \E k \in 1..Len(fds) : fds[k].ok /\ fds[k].link = link

\* the process name read at main.go:220-221 (the read error is dropped)
commName(e) == TrimSpace(IF e.commOK THEN e.comm ELSE <<>>)

\* the enumeration ends at an entry that cannot be used
afterSkipStop(entries) == <<>>

\* continue: the entries still to visit (main.go:211, 216)
afterSkip(entries) == Tail(entries)

RECURSIVE scanEntries(_, _)
scanEntries(entries, link) ==
    IF entries = <<>> THEN NoOwner
    ELSE LET e == Head(entries)
             a == Atoi(e.name)
         IN  IF a.err THEN scanEntries(afterSkip(entries), link)
             ELSE IF ~e.fdReadable THEN scanEntries(afterSkip(entries), link)
             ELSE IF HasLink(e.fds, link) THEN <<a.val, commName(e)>>
             ELSE scanEntries(Tail(entries), link)

findPIDByInode(fs, inode) ==
    IF ~fs.procReadable THEN NoOwner
    ELSE scanEntries(fs.entries, socketLink(inode))

\* the state column is not looked at
rowMatchesAnyState(row, port) ==
    LET parts == Split(row.local, ":")
    IN  Len(parts) = 2 /\ parts[2] = portHex(port)

\* the condition of main.go:191
rowMatches(row, port) ==
    LET parts == Split(row.local, ":")
    IN  Len(parts) = 2 /\ parts[2] = portHex(port) /\ row.st = StateListen

RECURSIVE scanRows(_, _, _)
scanRows(fs, rows, port) ==
    IF rows = <<>> THEN NoOwner
    ELSE LET row == Head(rows)
         IN  IF row.nfields < MinFields THEN scanRows(fs, Tail(rows), port)
             ELSE IF rowMatches(row, port) THEN findPIDByInode(fs, row.inode)
             ELSE scanRows(fs, Tail(rows), port)

searchNetFile(fs, file, port) ==
    IF ~file.readable THEN NoOwner
    ELSE scanRows(fs, IF file.lines = <<>> THEN <<>> ELSE Tail(file.lines), port)

\* only /proc/net/tcp is searched
findProcessByPortV4(fs, port) == searchNetFile(fs, fs.tcp, port)

findProcessByPort(fs, port) ==
    LET r4 == searchNetFile(fs, fs.tcp, port)
        r6 == searchNetFile(fs, fs.tcp6, port)
    IN  IF r4[1] > 0 THEN r4
        ELSE IF r6[1] > 0 THEN r6
        ELSE NoOwner

\* the files findProcessByPort opens, in order (main.go:166-170)
filesRead(fs, port) ==
    IF searchNetFile(fs, fs.tcp, port)[1] > 0 THEN <<"tcp">>
    ELSE <<"tcp", "tcp6">>

\* one call of findProcessByPort, as recorded in lookups
lookup(fs, port) == [port |-> port, files |-> filesRead(fs, port)]

\* ------------------------------------------------------------------------
\* Environments the scans run in

Header == [nfields |-> 12, local |-> <<"l", "o", "c", "a", "l">>,
           st |-> "st", inode |-> "inode"]

Row(hexport, st, inode) ==
    [nfields |-> 17, local |-> <<"0", ":">> \o hexport, st |-> st, inode |-> inode]

ProcSelf == [name |-> <<"s", "e", "l", "f">>, fdReadable |-> TRUE,
             fds |-> <<>>, commOK |-> FALSE, comm |-> <<>>]

Proc(name, fdReadable, fds, comm) ==
    [name |-> name, fdReadable |-> fdReadable, fds |-> fds,
     commOK |-> TRUE, comm |-> comm]

Fd(link) == [ok |-> TRUE, link |-> link]

\* port 2 is listening (IPv4, inode 77) and owned by pid 43 "sh";
\* port 1 has a row that is not listening; port 3 listens on IPv6 only
EnvOwned ==
    [tcp  |-> [readable |-> TRUE,
               lines |-> <<Header,
                           Row(<<"0", "0", "0", "1">>, "01", "55"),
                           Row(<<"0", "0", "0", "2">>, "0A", "77")>>],
     tcp6 |-> [readable |-> TRUE,
               lines |-> <<Header, Row(<<"0", "0", "0", "3">>, "0A", "88")>>],
     procReadable |-> TRUE,
     entries |-> <<ProcSelf,
                   Proc(<<"7">>, FALSE, <<>>, <<>>),
                   Proc(<<"4", "3">>, TRUE,
                        <<Fd(<<"/dev/null">>), Fd(socketLink("77"))>>,
                        <<"s", "h", "\n">>),
                   Proc(<<"4", "4">>, TRUE, <<Fd(socketLink("88"))>>,
                        <<"g", "o", "\n">>)>>]

\* the socket tables list the ports but no descriptor table is readable
EnvDenied ==
    [tcp  |-> [readable |-> TRUE,
               lines |-> <<Header,
                           Row(<<"0", "0", "0", "1">>, "0A", "55"),
                           Row(<<"0", "0", "0", "2">>, "0A", "77"),
                           Row(<<"0", "0", "0", "3">>, "0A", "88")>>],
     tcp6 |-> [readable |-> FALSE, lines |-> <<>>],
     procReadable |-> TRUE,
     entries |-> <<ProcSelf, Proc(<<"4", "3">>, FALSE, <<>>, <<>>)>>]

Envs == {EnvOwned, EnvDenied}

TableOf(rows) == [readable |-> TRUE, lines |-> <<Header>> \o rows]

NoTable == [readable |-> FALSE, lines |-> <<>>]

ListenRows == <<Row(<<"0", "0", "0", "1">>, "0A", "55"),
                Row(<<"0", "0", "0", "2">>, "0A", "77")>>

Holders == <<ProcSelf,
             Proc(<<"4", "2">>, TRUE, <<Fd(socketLink("55"))>>,
                  <<"v", "i", "\n">>),
             Proc(<<"4", "3">>, TRUE, <<Fd(socketLink("77"))>>,
                  <<"s", "h", "\n">>)>>

\* neither socket table can be opened
EnvNoTables ==
    [tcp |-> NoTable, tcp6 |-> NoTable, procReadable |-> TRUE,
     entries |-> Holders]

\* the tables have no listening row for ports 1 and 2: port 1 is the local
\* port of an established connection of pid 42, port 2 has a short line
EnvNoRow ==
    [tcp  |-> TableOf(<<Row(<<"0", "0", "0", "1">>, "01", "55"),
                        [Row(<<"0", "0", "0", "2">>, "0A", "77")
                            EXCEPT !.nfields = 9]>>),
     tcp6 |-> TableOf(<<>>),
     procReadable |-> TRUE,
     entries |-> Holders]

\* /proc cannot be opened
EnvNoProc ==
    [tcp |-> TableOf(ListenRows), tcp6 |-> TableOf(<<>>),
     procReadable |-> FALSE, entries |-> <<>>]

\* the inodes of the listening rows are held by no process
EnvNoHolder ==
    [tcp |-> TableOf(ListenRows), tcp6 |-> TableOf(<<>>),
     procReadable |-> TRUE,
     entries |-> <<ProcSelf,
                   Proc(<<"4", "3">>, TRUE,
                        <<Fd(<<"/dev/null">>), Fd(socketLink("99"))>>,
                        <<"s", "h", "\n">>)>>]

SoftEnvs == {EnvNoTables, EnvNoRow, EnvNoProc, EnvDenied, EnvNoHolder, EnvOwned}

\* ------------------------------------------------------------------------
\* State

VARIABLES
    osArgs,       \* os.Args[1:], each argument a sequence of characters
    occupied,     \* ports on which a bind by this program fails
    procfs,       \* the kernel interfaces read by the resolver
    listeners,    \* ports this program holds a listener on
    pcMain,       \* position of the main goroutine
    showPID,      \* main: showPID
    start,        \* checkPortRange: start
    end,          \* checkPortRange: end
    port,         \* checkPortRange: loop variable of the launch loop
    taskPc,       \* position of the task launched for each port
    taskRes,      \* the PortResult each task got from checkPort
    sem,          \* number of elements in the channel sem
    wg,           \* counter of the WaitGroup
    results,      \* buffer of the channel results
    closed,       \* results has been closed
    closerPc,     \* position of the goroutine of main.go:123
    portResults,  \* checkPortRange: portResults
    inUse,        \* checkPortRange: inUse
    mainRes,      \* the PortResult main got from checkPort (single port)
    out,          \* lines written to standard output
    exited,       \* the process has ended
    exitCode,     \* its exit status
    panicked,     \* a goroutine panicked (send on closed channel)
    probeLog,     \* SpecProbe: results of the consecutive checkPort calls
    binds,        \* history: number of net.Listen calls made for each port
    now,          \* the clock read by time.Now and time.Since
    startTime,    \* checkPortRange: startTime
    lastRecv,     \* history: the clock when the last result was received
    lookups       \* history: the calls of findProcessByPort

vars == <<osArgs, occupied, procfs, listeners, pcMain, showPID, start, end,
          port, taskPc, taskRes, sem, wg, results, closed, closerPc,
          portResults, inUse, mainRes, out, exited, exitCode, panicked,
          probeLog, binds, now, startTime, lastRecv, lookups>>

\* ------------------------------------------------------------------------
\* main: arguments and validation (main.go:27-70)

PidFlags == {<<"-", "-", "p", "i", "d">>, <<"-", "p">>}

HelpFlags == {<<"-", "h">>, <<"-", "-", "h", "e", "l", "p">>}

\* main.go:36
hasPidFlag(args) == Len(args) >= 1 /\ args[1] \in PidFlags

\* main.go:34,41 (defined when the argument is present)
portArgOf(args) == IF hasPidFlag(args) THEN args[2] ELSE args[1]

\* the range check without the upper limit
validRangeNoMax(err1, err2, s, e) == ~(err1 \/ err2 \/ s > e \/ s < MinPort)

\* negation of the condition of main.go:57
validRange(err1, err2, s, e) ==
    ~(err1 \/ err2 \/ s > e \/ s < MinPort \/ e > MaxPort)

\* negation of the condition of main.go:64
validPort(err, p) == ~(err \/ p < MinPort \/ p > MaxPort)

Quit(kind, code) == [kind |-> kind, code |-> code, start |-> 0, end |-> 0]

\* what main decides: leave with a message, scan a range or probe a port
parse(args) ==
    IF Len(args) + 1 < 2 THEN Quit("usage", 1)
    ELSE IF hasPidFlag(args) /\ Len(args) + 1 < 3 THEN Quit("error", 1)
    ELSE LET portArg == portArgOf(args) IN
      IF portArg \in HelpFlags THEN Quit("usage", 0)
      ELSE IF Contains(portArg, "-") THEN
        LET parts == Split(portArg, "-") IN
          IF Len(parts) # 2 THEN Quit("error", 1)
          ELSE LET a1 == Atoi(parts[1])
                   a2 == Atoi(parts[2])
               IN  IF ~validRange(a1.err, a2.err, a1.val, a2.val)
                   THEN Quit("error", 1)
                   ELSE [kind |-> "range", code |-> 0,
                         start |-> a1.val, end |-> a2.val]
      ELSE LET a == Atoi(portArg) IN
          IF ~validPort(a.err, a.val) THEN Quit("error", 1)
          ELSE [kind |-> "single", code |-> 0, start |-> a.val, end |-> a.val]

\* PortResult{Port: port}
PortResult(p) == [Port |-> p, InUse |-> FALSE, PID |-> 0, Process |-> <<>>]

\* printResult as a line of output (main.go:151-163)
printResult(r, withPID) ==
    IF r.InUse
    THEN [kind |-> "inuse", Port |-> r.Port,
          owner |-> IF withPID /\ r.PID > 0 THEN <<r.PID, r.Process>>
                    ELSE IF withPID THEN <<"unavailable">>
                    ELSE <<>>]
    ELSE [kind |-> "available", Port |-> r.Port, owner |-> <<>>]

\* entry of checkPortRange (main.go:105-111): no task is launched yet and
\* the line "Scanning ports start-end..." is printed
noTasks(s, e) == [p \in s..e |-> "unlaunched"]

noResults(s, e) == [p \in s..e |-> PortResult(p)]

scanningLine(s, e) == [kind |-> "scanning", start |-> s, end |-> e]

Main ==
    /\ pcMain = "main"
    /\ LET d == parse(osArgs) IN
         /\ showPID' = hasPidFlag(osArgs)
         /\ start' = d.start
         /\ end' = d.end
         /\ port' = d.start
         /\ IF d.kind = "range"
            THEN /\ pcMain' = "launch"
                 /\ taskPc' = noTasks(d.start, d.end)
                 /\ taskRes' = noResults(d.start, d.end)
                 /\ out' = Append(out, scanningLine(d.start, d.end))
                 /\ UNCHANGED <<exited, exitCode>>
            ELSE IF d.kind = "single"
            THEN /\ pcMain' = "listen"
                 /\ UNCHANGED <<taskPc, taskRes, out, exited, exitCode>>
            ELSE /\ pcMain' = "exit"
                 /\ out' = Append(out, [kind |-> d.kind])
                 /\ exited' = TRUE
                 /\ exitCode' = d.code
                 /\ UNCHANGED <<taskPc, taskRes>>
    /\ UNCHANGED <<osArgs, occupied, procfs, listeners, sem, wg, results,
                   closed, closerPc, portResults, inUse, mainRes, panicked,
                   probeLog, binds>>
    /\ now' = now + 1
    /\ startTime' = IF parse(osArgs).kind = "range" THEN now + 1 ELSE startTime
    /\ UNCHANGED <<lastRecv, lookups>>

\* ------------------------------------------------------------------------
\* checkPort (main.go:91-103)

\* net.Listen succeeds (main.go:93)
bindOK(p) == p \notin (occupied \cup listeners)

\* the listener is left open
keepListener(ls, p) == ls

\* listener.Close() (main.go:100)
closeListener(ls, p) == ls \ {p}

\* the resolver is called for every failed bind
resolvesUnasked(failed, getPID) == failed

\* findProcessByPort is called: err != nil and getPID (main.go:94, 96)
resolves(failed, getPID) == failed /\ getPID

\* the branch err != nil (main.go:94-98)
bindFailed(fs, p, getPID) ==
    LET r == [PortResult(p) EXCEPT !.InUse = TRUE]
        o == findProcessByPort(fs, p)
    IN  IF resolves(TRUE, getPID)
        THEN [r EXCEPT !.PID = o[1], !.Process = o[2]] ELSE r

\* one more net.Listen call on port p
bump(b, p) == IF p \in DOMAIN b THEN [b EXCEPT ![p] = @ + 1] ELSE b @@ (p :> 1)

\* single port: main.go:68 calls checkPort, net.Listen
SingleListen ==
    /\ ~exited /\ pcMain = "listen"
    /\ binds' = bump(binds, start)
    /\ IF bindOK(start)
       THEN /\ listeners' = listeners \cup {start}
            /\ mainRes' = PortResult(start)
            /\ pcMain' = "close"
       ELSE /\ mainRes' = bindFailed(procfs, start, showPID)
            /\ pcMain' = "print"
            /\ UNCHANGED listeners
    /\ UNCHANGED <<osArgs, occupied, procfs, showPID, start, end, port, taskPc,
                   taskRes, sem, wg, results, closed, closerPc, portResults,
                   inUse, out, exited, exitCode, panicked, probeLog>>
    /\ lookups' = IF resolves(~bindOK(start), showPID)
                  THEN lookups \cup {lookup(procfs, start)} ELSE lookups
    /\ UNCHANGED <<now, startTime, lastRecv>>

SingleClose ==
    /\ ~exited /\ pcMain = "close"
    /\ listeners' = closeListener(listeners, start)
    /\ pcMain' = "print"
    /\ UNCHANGED <<osArgs, occupied, procfs, showPID, start, end, port, taskPc,
                   taskRes, sem, wg, results, closed, closerPc, portResults,
                   inUse, mainRes, out, exited, exitCode, panicked, probeLog, binds>>
    /\ UNCHANGED <<now, startTime, lastRecv, lookups>>

\* the exit status when main returns after printResult (main.go:68-70)
singleExit(r) == 0

SinglePrint ==
    /\ ~exited /\ pcMain = "print"
    /\ out' = Append(out, printResult(mainRes, showPID))
    /\ pcMain' = "exit"
    /\ exited' = TRUE
    /\ exitCode' = singleExit(mainRes)
    /\ UNCHANGED <<osArgs, occupied, procfs, listeners, showPID, start, end,
                   port, taskPc, taskRes, sem, wg, results, closed, closerPc,
                   portResults, inUse, mainRes, panicked, probeLog, binds>>
    /\ UNCHANGED <<now, startTime, lastRecv, lookups>>

\* ------------------------------------------------------------------------
\* checkPortRange (main.go:105-149)

\* a buffer one element short of the number of tasks
resultsCapShort == end - start

\* cap(results) (main.go:107)
resultsCap == end - start + 1

\* the loop stops one port early
launchCondShort(p, e) == p < e

\* loop condition of main.go:113
launchCond(p, e) == p <= e

\* main.go:113-123: wg.Add(1) and go func(p) for the next port, or, after the
\* loop, the start of the goroutine that closes results
Launch ==
    /\ ~exited /\ pcMain = "launch"
    /\ IF launchCond(port, end)
       THEN /\ wg' = wg + 1
            /\ taskPc' = [taskPc EXCEPT ![port] = "acquire"]
            /\ port' = port + 1
            /\ UNCHANGED <<pcMain, closerPc>>
       ELSE /\ closerPc' = "wait"
            /\ pcMain' = "collect"
            /\ UNCHANGED <<wg, taskPc, port>>
    /\ UNCHANGED <<osArgs, occupied, procfs, listeners, showPID, start, end,
                   taskRes, sem, results, closed, portResults, inUse, mainRes,
                   out, exited, exitCode, panicked, probeLog, binds>>
    /\ now' = now + 1
    /\ UNCHANGED <<startTime, lastRecv, lookups>>

\* a send on sem that never blocks
semUnbounded(n) == TRUE

\* sem <- struct{}{} can proceed (main.go:117)
semFree(n) == n < SemCap

\* the task proceeds without putting an element into sem
semSkipped(n) == n

\* sem <- struct{}{} adds one element (main.go:117)
semAcquire(n) == n + 1

Acquire(p) ==
    /\ ~exited /\ taskPc[p] = "acquire"
    /\ semFree(sem)
    /\ sem' = semAcquire(sem)
    /\ taskPc' = [taskPc EXCEPT ![p] = "listen"]
    /\ UNCHANGED <<osArgs, occupied, procfs, listeners, pcMain, showPID, start,
                   end, port, taskRes, wg, results, closed, closerPc,
                   portResults, inUse, mainRes, out, exited, exitCode,
                   panicked, probeLog, binds>>
    /\ UNCHANGED <<now, startTime, lastRecv, lookups>>

\* every task reads the loop variable's first value
taskPortFirst(p) == start

\* the port the task of the p-th iteration probes: the loop variable is
\* passed by value, go func(p int) {...}(port) (main.go:115, 120)
taskPort(p) == p

\* checkPort(p, showPID) in the task: net.Listen and the branch err != nil
TaskListen(p) ==
    /\ ~exited /\ taskPc[p] = "listen"
    /\ binds' = bump(binds, taskPort(p))
    /\ IF bindOK(taskPort(p))
       THEN /\ listeners' = listeners \cup {taskPort(p)}
            /\ taskRes' = [taskRes EXCEPT ![p] = PortResult(taskPort(p))]
            /\ taskPc' = [taskPc EXCEPT ![p] = "close"]
       ELSE /\ taskRes' = [taskRes EXCEPT
                              ![p] = bindFailed(procfs, taskPort(p), showPID)]
            /\ taskPc' = [taskPc EXCEPT ![p] = "send"]
            /\ UNCHANGED listeners
    /\ UNCHANGED <<osArgs, occupied, procfs, pcMain, showPID, start, end, port,
                   sem, wg, results, closed, closerPc, portResults, inUse,
                   mainRes, out, exited, exitCode, panicked, probeLog>>
    /\ lookups' = IF resolves(~bindOK(taskPort(p)), showPID)
                  THEN lookups \cup {lookup(procfs, taskPort(p))}
                  ELSE lookups
    /\ UNCHANGED <<now, startTime, lastRecv>>

TaskClose(p) ==
    /\ ~exited /\ taskPc[p] = "close"
    /\ listeners' = closeListener(listeners, taskPort(p))
    /\ taskPc' = [taskPc EXCEPT ![p] = "send"]
    /\ UNCHANGED <<osArgs, occupied, procfs, pcMain, showPID, start, end, port,
                   taskRes, sem, wg, results, closed, closerPc, portResults,
                   inUse, mainRes, out, exited, exitCode, panicked, probeLog, binds>>
    /\ UNCHANGED <<now, startTime, lastRecv, lookups>>

\* results <- ... (main.go:119); a send on a closed channel panics
Send(p) ==
    /\ ~exited /\ taskPc[p] = "send"
    /\ IF closed
       THEN /\ panicked' = TRUE
            /\ exited' = TRUE
            /\ exitCode' = 2
            /\ UNCHANGED <<results, taskPc>>
       ELSE /\ Len(results) < resultsCap
            /\ results' = Append(results, taskRes[p])
            /\ taskPc' = [taskPc EXCEPT ![p] = "release"]
            /\ UNCHANGED <<panicked, exited, exitCode>>
    /\ UNCHANGED <<osArgs, occupied, procfs, listeners, pcMain, showPID, start,
                   end, port, taskRes, sem, wg, closed, closerPc, portResults,
                   inUse, mainRes, out, probeLog, binds>>
    /\ UNCHANGED <<now, startTime, lastRecv, lookups>>

\* the slot is not given back
semKept(n) == n

\* deferred <-sem (main.go:118)
semRelease(n) == n - 1

Release(p) ==
    /\ ~exited /\ taskPc[p] = "release"
    /\ sem > 0
    /\ sem' = semRelease(sem)
    /\ taskPc' = [taskPc EXCEPT ![p] = "wgdone"]
    /\ UNCHANGED <<osArgs, occupied, procfs, listeners, pcMain, showPID, start,
                   end, port, taskRes, wg, results, closed, closerPc,
                   portResults, inUse, mainRes, out, exited, exitCode,
                   panicked, probeLog, binds>>
    /\ UNCHANGED <<now, startTime, lastRecv, lookups>>

\* deferred wg.Done() (main.go:116)
WgDone(p) ==
    /\ ~exited /\ taskPc[p] = "wgdone"
    /\ wg' = wg - 1
    /\ taskPc' = [taskPc EXCEPT ![p] = "done"]
    /\ UNCHANGED <<osArgs, occupied, procfs, listeners, pcMain, showPID, start,
                   end, port, taskRes, sem, results, closed, closerPc,
                   portResults, inUse, mainRes, out, exited, exitCode,
                   panicked, probeLog, binds>>
    /\ UNCHANGED <<now, startTime, lastRecv, lookups>>

\* a Wait that returns at once
waitSkipped(n) == TRUE

\* wg.Wait() returns (main.go:123)
waitReturns(n) == n = 0

CloserWait ==
    /\ ~exited /\ closerPc = "wait"
    /\ waitReturns(wg)
    /\ closerPc' = "close"
    /\ UNCHANGED <<osArgs, occupied, procfs, listeners, pcMain, showPID, start,
                   end, port, taskPc, taskRes, sem, wg, results, closed,
                   portResults, inUse, mainRes, out, exited, exitCode,
                   panicked, probeLog, binds>>
    /\ UNCHANGED <<now, startTime, lastRecv, lookups>>

\* close(results) (main.go:123)
CloserClose ==
    /\ ~exited /\ closerPc = "close"
    /\ closed' = TRUE
    /\ closerPc' = "done"
    /\ UNCHANGED <<osArgs, occupied, procfs, listeners, pcMain, showPID, start,
                   end, port, taskPc, taskRes, sem, wg, results, portResults,
                   inUse, mainRes, out, exited, exitCode, panicked, probeLog, binds>>
    /\ UNCHANGED <<now, startTime, lastRecv, lookups>>

\* one iteration of for r := range results (main.go:126-128), or its end
Collect ==
    /\ ~exited /\ pcMain = "collect"
    /\ IF results # <<>>
       THEN /\ portResults' = Append(portResults, Head(results))
            /\ results' = Tail(results)
            /\ UNCHANGED pcMain
       ELSE /\ closed
            /\ pcMain' = "sort"
            /\ UNCHANGED <<portResults, results>>
    /\ UNCHANGED <<osArgs, occupied, procfs, listeners, showPID, start, end,
                   port, taskPc, taskRes, sem, wg, closed, closerPc, inUse,
                   mainRes, out, exited, exitCode, panicked, probeLog, binds>>
    /\ now' = now + 1
    /\ lastRecv' = IF results # <<>> THEN now + 1 ELSE lastRecv
    /\ UNCHANGED <<startTime, lookups>>

\* the comparison reversed
portLess(x, y) == x.Port < y.Port

\* the comparison of main.go:133
portGreater(x, y) == x.Port > y.Port

swap(a, i, j) == [a EXCEPT ![i] = a[j], ![j] = a[i]]

\* first index of the inner loop (main.go:132)
innerFrom(i) == i + 1

\* inner loop of the sort, for j := i + 1; j < len; j++ (indices from 1)
RECURSIVE sortInner(_, _, _)
sortInner(a, i, j) ==
    IF j > Len(a) THEN a
    ELSE sortInner(IF portGreater(a[i], a[j]) THEN swap(a, i, j) ELSE a, i, j + 1)

\* outer loop, for i := range portResults
RECURSIVE sortOuter(_, _)
sortOuter(a, i) ==
    IF i > Len(a) THEN a
    ELSE sortOuter(sortInner(a, i, innerFrom(i)), i + 1)

\* the exchange sort of main.go:131-137
sortByPort(a) == sortOuter(a, 1)

Sort ==
    /\ ~exited /\ pcMain = "sort"
    /\ portResults' = sortByPort(portResults)
    /\ pcMain' = "printscan"
    /\ UNCHANGED <<osArgs, occupied, procfs, listeners, showPID, start, end,
                   port, taskPc, taskRes, sem, wg, results, closed, closerPc,
                   inUse, mainRes, out, exited, exitCode, panicked, probeLog, binds>>
    /\ now' = now + 1
    /\ UNCHANGED <<startTime, lastRecv, lookups>>

\* every result is counted
countedAll(r) == TRUE

\* the condition of main.go:141
counted(r) == r.InUse

\* the lines printed by the loop of main.go:140-145
RECURSIVE inUseLines(_, _)
inUseLines(rs, withPID) ==
    IF rs = <<>> THEN <<>>
    ELSE IF counted(Head(rs))
         THEN <<printResult(Head(rs), withPID)>> \o inUseLines(Tail(rs), withPID)
         ELSE inUseLines(Tail(rs), withPID)

\* the value of inUse after that loop
RECURSIVE countInUse(_)
countInUse(rs) ==
    IF rs = <<>> THEN 0
    ELSE (IF counted(Head(rs)) THEN 1 ELSE 0) + countInUse(Tail(rs))

PrintInUse ==
    /\ ~exited /\ pcMain = "printscan"
    /\ inUse' = countInUse(portResults)
    /\ out' = out \o inUseLines(portResults, showPID)
    /\ pcMain' = "summary"
    /\ UNCHANGED <<osArgs, occupied, procfs, listeners, showPID, start, end,
                   port, taskPc, taskRes, sem, wg, results, closed, closerPc,
                   portResults, mainRes, exited, exitCode, panicked, probeLog, binds>>
    /\ now' = now + 1
    /\ UNCHANGED <<startTime, lastRecv, lookups>>

\* time.Since(startTime) (main.go:148)
since(t, t0) == t - t0

\* the summary line (main.go:147-148)
summaryLine(rs, n, elapsed) ==
    [kind |-> "summary", total |-> Len(rs), inUse |-> n,
     available |-> Len(rs) - n, elapsed |-> elapsed]

Summary ==
    /\ ~exited /\ pcMain = "summary"
    /\ out' = Append(out, summaryLine(portResults, inUse, since(now, startTime)))
    /\ pcMain' = "exit"
    /\ exited' = TRUE
    /\ exitCode' = 0
    /\ UNCHANGED <<osArgs, occupied, procfs, listeners, showPID, start, end,
                   port, taskPc, taskRes, sem, wg, results, closed, closerPc,
                   portResults, inUse, mainRes, panicked, probeLog, binds>>
    /\ UNCHANGED <<now, startTime, lastRecv, lookups>>

\* ------------------------------------------------------------------------
\* Invocations

Alphabet == {"0", "1", "2", "3", "-"}

ArgStrings == UNION {[1..n -> Alphabet] : n \in 0..MaxArgLen}

ExtraArgs ==
    { <<"7", "0", "0", "0", "0">>,
      <<"1", "0", "0", "-", "5", "0">>,
      <<"6", "5", "5", "3", "5">>,
      <<"6", "5", "5", "3", "6">>,
      <<"6", "5", "5", "3", "5", "-", "6", "5", "5", "3", "5">>,
      <<"6", "5", "5", "3", "5", "-", "6", "5", "5", "3", "6">>,
      <<"+", "2">>,
      <<"1", "-", "+", "3">>,
      <<"2", "a">>,
      <<"1", "-", "2", "-", "3">>,
      <<"-", "h">>,
      <<"-", "-", "h", "e", "l", "p">> }

PortArgs == ArgStrings \cup ExtraArgs

ArgVectors ==
    {<<>>} \cup {<<a>> : a \in PortArgs \cup PidFlags}
           \cup {<<f, a>> : f \in PidFlags, a \in PortArgs}

\* the ports an invocation probes
queried(args) ==
    LET d == parse(args)
    IN  IF d.kind \in {"range", "single"} THEN d.start..d.end ELSE {}

Idle ==
    /\ listeners = {}
    /\ port = 0
    /\ taskPc = <<>>
    /\ taskRes = <<>>
    /\ sem = 0
    /\ wg = 0
    /\ results = <<>>
    /\ closed = FALSE
    /\ closerPc = "none"
    /\ portResults = <<>>
    /\ inUse = 0
    /\ mainRes = PortResult(0)
    /\ out = <<>>
    /\ exited = FALSE
    /\ exitCode = 0
    /\ panicked = FALSE
    /\ probeLog = <<>>
    /\ binds = <<>>
    /\ now = 0
    /\ startTime = 0
    /\ lastRecv = 0
    /\ lookups = {}

Init ==
    /\ osArgs \in {a \in ArgVectors : Cardinality(queried(a)) <= MaxPorts}
    /\ occupied \in SUBSET queried(osArgs)
    /\ procfs \in Envs
    /\ pcMain = "main"
    /\ showPID = FALSE
    /\ start = 0
    /\ end = 0
    /\ Idle

Tasks == DOMAIN taskPc

Next ==
    \/ Main
    \/ SingleListen
    \/ SingleClose
    \/ SinglePrint
    \/ Launch
    \/ \E p \in Tasks : Acquire(p)
    \/ \E p \in Tasks : TaskListen(p)
    \/ \E p \in Tasks : TaskClose(p)
    \/ \E p \in Tasks : Send(p)
    \/ \E p \in Tasks : Release(p)
    \/ \E p \in Tasks : WgDone(p)
    \/ CloserWait
    \/ CloserClose
    \/ Collect
    \/ Sort
    \/ PrintInUse
    \/ Summary

Spec == Init /\ [][Next]_vars

\* ------------------------------------------------------------------------
\* Consecutive probes of one port: one goroutine calls checkPort MaxProbes
\* times in a row, with or without process resolution

InitProbe ==
    /\ osArgs = <<>>
    /\ occupied \in SUBSET (1..MaxProbePort)
    /\ procfs \in Envs
    /\ pcMain = "listen"
    /\ showPID \in BOOLEAN
    /\ start \in 1..MaxProbePort
    /\ end = start
    /\ Idle

\* checkPort returns to the caller, which calls it again
ProbeReturn ==
    /\ ~exited /\ pcMain = "print"
    /\ Len(probeLog) < MaxProbes
    /\ probeLog' = Append(probeLog, [res |-> mainRes, getPID |-> showPID])
    /\ IF Len(probeLog) + 1 < MaxProbes
       THEN /\ pcMain' = "listen"
            /\ showPID' \in BOOLEAN
       ELSE /\ pcMain' = "probed"
            /\ UNCHANGED showPID
    /\ UNCHANGED <<osArgs, occupied, procfs, listeners, start, end, port,
                   taskPc, taskRes, sem, wg, results, closed, closerPc,
                   portResults, inUse, mainRes, out, exited, exitCode,
                   panicked, binds>>
    /\ UNCHANGED <<now, startTime, lastRecv, lookups>>

NextProbe ==
    \/ SingleListen
    \/ SingleClose
    \/ ProbeReturn

SpecProbe == InitProbe /\ [][NextProbe]_vars

\* ------------------------------------------------------------------------
\* Range scans under fair scheduling, from the entry of checkPortRange (main
\* has validated the range): a goroutine that can take a step eventually
\* takes one

\* the decimal form of a positive integer
RECURSIVE Itoa(_)
Itoa(n) == IF n < 10 THEN <<Digits[n + 1]>>
           ELSE Itoa(n \div 10) \o <<Digits[(n % 10) + 1]>>

\* the argument <s>-<e>
rangeArg(s, e) == Itoa(s) \o <<"-">> \o Itoa(e)

InitScan ==
    /\ osArgs \in {<<rangeArg(s, e)>> : s \in 1..MaxPorts, e \in 1..MaxPorts}
    /\ parse(osArgs).kind = "range"
    /\ occupied \in {{}, {parse(osArgs).start}, queried(osArgs)}
    /\ procfs = EnvOwned
    /\ pcMain = "launch"
    /\ showPID = hasPidFlag(osArgs)
    /\ start = parse(osArgs).start
    /\ end = parse(osArgs).end
    /\ port = start
    /\ taskPc = noTasks(start, end)
    /\ taskRes = noResults(start, end)
    /\ out = <<scanningLine(start, end)>>
    /\ listeners = {}
    /\ sem = 0
    /\ wg = 0
    /\ results = <<>>
    /\ closed = FALSE
    /\ closerPc = "none"
    /\ portResults = <<>>
    /\ inUse = 0
    /\ mainRes = PortResult(0)
    /\ exited = FALSE
    /\ exitCode = 0
    /\ panicked = FALSE
    /\ probeLog = <<>>
    /\ binds = <<>>
    /\ now = 0
    /\ startTime = 0
    /\ lastRecv = 0
    /\ lookups = {}

NextScan ==
    \/ Launch
    \/ \E p \in Tasks : Acquire(p)
    \/ \E p \in Tasks : TaskListen(p)
    \/ \E p \in Tasks : TaskClose(p)
    \/ \E p \in Tasks : Send(p)
    \/ \E p \in Tasks : Release(p)
    \/ \E p \in Tasks : WgDone(p)
    \/ CloserWait
    \/ CloserClose
    \/ Collect
    \/ Sort
    \/ PrintInUse
    \/ Summary

SpecFair == InitScan /\ [][NextScan]_vars /\ WF_vars(NextScan)

\* the same scans under any scheduling
SpecScan == InitScan /\ [][NextScan]_vars

\* ------------------------------------------------------------------------
\* portcheck -p <port> on an occupied port, after main has validated the
\* argument, in every environment built from a few rows and processes

SeqsUpTo(S, n) == UNION {[1..k -> S] : k \in 0..n}

\* the port asked for; its hexadecimal form has a letter
ResolvePort == 10

RowChoices ==
    { Row(<<"0", "0", "0", "A">>, "0A", "77"),
      Row(<<"0", "0", "0", "A">>, "0A", "88"),
      Row(<<"0", "0", "0", "A">>, "01", "88"),
      [Row(<<"0", "0", "0", "A">>, "0A", "88") EXCEPT !.nfields = 9],
      Row(<<"0", "0", "A", "0">>, "0A", "88") }

ProcChoices ==
    { ProcSelf,
      Proc(<<"7">>, FALSE, <<>>, <<>>),
      Proc(<<"4", "3", "2", "1">>, TRUE,
           <<[ok |-> FALSE, link |-> <<>>], Fd(socketLink("77"))>>,
           <<"t", "e", "s", "t", "p", "r", "o", "c", "\n">>),
      [Proc(<<"4", "4">>, TRUE, <<Fd(socketLink("88"))>>, <<>>)
          EXCEPT !.commOK = FALSE],
      Proc(<<"4", "5">>, TRUE,
           <<Fd(<<"/dev/null">>), Fd(socketLink("88")), Fd(socketLink("77"))>>,
           <<"s", "h", "\n">>) }

Tables4 == {NoTable} \cup {TableOf(rows) : rows \in SeqsUpTo(RowChoices, MaxRows)}

Tables6 ==
    { NoTable, TableOf(<<>>),
      TableOf(<<Row(<<"0", "0", "0", "A">>, "0A", "77")>>),
      TableOf(<<Row(<<"0", "0", "0", "A">>, "0A", "88")>>) }

ResolveEnvs ==
    {[tcp |-> t4, tcp6 |-> t6, procReadable |-> TRUE, entries |-> es] :
        t4 \in Tables4, t6 \in Tables6, es \in SeqsUpTo(ProcChoices, MaxEntries)}
    \cup
    {[tcp |-> t4, tcp6 |-> t6, procReadable |-> FALSE, entries |-> <<>>] :
        t4 \in Tables4, t6 \in Tables6}

InitResolve ==
    /\ osArgs = <<<<"-", "p">>, Itoa(ResolvePort)>>
    /\ parse(osArgs).kind = "single"
    /\ occupied = queried(osArgs)
    /\ procfs \in ResolveEnvs
    /\ pcMain = "listen"
    /\ showPID = hasPidFlag(osArgs)
    /\ start = parse(osArgs).start
    /\ end = parse(osArgs).end
    /\ Idle

NextResolve ==
    \/ SingleListen
    \/ SinglePrint

SpecResolve == InitResolve /\ [][NextResolve]_vars

\* ------------------------------------------------------------------------
\* Range scans with -p in environments where the resolution fails, from the
\* entry of checkPortRange

InitSoft ==
    /\ osArgs \in {<<<<"-", "p">>, rangeArg(s, e)>> :
                       s \in 1..MaxSoftPorts, e \in 1..MaxSoftPorts}
    /\ parse(osArgs).kind = "range"
    /\ occupied \in SUBSET queried(osArgs)
    /\ procfs \in SoftEnvs
    /\ pcMain = "launch"
    /\ showPID = hasPidFlag(osArgs)
    /\ start = parse(osArgs).start
    /\ end = parse(osArgs).end
    /\ port = start
    /\ taskPc = noTasks(start, end)
    /\ taskRes = noResults(start, end)
    /\ out = <<scanningLine(start, end)>>
    /\ listeners = {}
    /\ sem = 0
    /\ wg = 0
    /\ results = <<>>
    /\ closed = FALSE
    /\ closerPc = "none"
    /\ portResults = <<>>
    /\ inUse = 0
    /\ mainRes = PortResult(0)
    /\ exited = FALSE
    /\ exitCode = 0
    /\ panicked = FALSE
    /\ probeLog = <<>>
    /\ binds = <<>>
    /\ now = 0
    /\ startTime = 0
    /\ lastRecv = 0
    /\ lookups = {}

SpecSoft == InitSoft /\ [][NextScan]_vars

\* ------------------------------------------------------------------------
\* Properties

Scanning == DOMAIN taskPc # {}

\* the range loop over results has ended
Collected == Scanning /\ pcMain \in {"sort", "printscan", "summary", "exit"}

occurrences(rs, p) == Cardinality({i \in 1..Len(rs) : rs[i].Port = p})

\* C1: when checkPortRange has finished collecting, portResults holds
\* end-start+1 entries and every port of start..end appears in exactly one.
C1_OneResultPerPort ==
    Collected =>
        /\ Len(portResults) = end - start + 1
        /\ \A p \in start..end : occurrences(portResults, p) = 1
        /\ \A i \in 1..Len(portResults) : portResults[i].Port \in start..end

\* a scan of three ports was collected in an order that is not the port order
C1_Witness ==
    /\ Collected /\ pcMain = "sort"
    /\ Len(portResults) = 3
    /\ portResults[1].Port > portResults[2].Port

ascending(rs) ==
    \A i \in 1..Len(rs) : \A j \in 1..Len(rs) : i < j => rs[i].Port < rs[j].Port

copies(rs, r) == Cardinality({i \in 1..Len(rs) : rs[i] = r})

permutation(a, b) ==
    /\ Len(a) = Len(b)
    /\ \A i \in 1..Len(a) : copies(a, a[i]) = copies(b, a[i])

RECURSIVE inUsePorts(_)
inUsePorts(lines) ==
    IF lines = <<>> THEN <<>>
    ELSE IF Head(lines).kind = "inuse"
         THEN <<Head(lines).Port>> \o inUsePorts(Tail(lines))
         ELSE inUsePorts(Tail(lines))

RECURSIVE portsInUse(_)
portsInUse(rs) ==
    IF rs = <<>> THEN <<>>
    ELSE IF Head(rs).InUse THEN <<Head(rs).Port>> \o portsInUse(Tail(rs))
         ELSE portsInUse(Tail(rs))

increasing(ps) ==
    \A i \in 1..Len(ps) : \A j \in 1..Len(ps) : i < j => ps[i] < ps[j]

summaryLast(lines) ==
    /\ lines # <<>>
    /\ lines[Len(lines)].kind = "summary"
    /\ \A i \in 1..(Len(lines) - 1) : lines[i].kind # "summary"

\* C2: the sort step turns portResults, whatever the arrival order, into a
\* permutation of itself in strictly ascending port order; the in-use lines
\* are printed in strictly ascending port order and the summary line comes
\* after all of them.
C2_SortedOutput ==
    [][ /\ (pcMain = "sort" /\ pcMain' = "printscan") =>
             /\ permutation(portResults, portResults')
             /\ ascending(portResults')
        /\ (Scanning' /\ pcMain' \in {"summary", "exit"}) =>
             /\ increasing(inUsePorts(out'))
             /\ inUsePorts(out') = portsInUse(portResults')
        /\ (Scanning' /\ pcMain' = "exit" /\ ~panicked') => summaryLast(out')
      ]_vars

\* a finished scan that printed two in-use ports and then the summary
C2_Witness ==
    /\ Scanning /\ pcMain = "exit" /\ ~panicked
    /\ Len(portResults) = 3
    /\ Len(out) = 4
    /\ out[2].kind = "inuse" /\ out[3].kind = "inuse"
    /\ out[4].kind = "summary"

executing == {p \in DOMAIN taskPc : taskPc[p] \in {"listen", "close"}}

\* C3: at most SemCap tasks are inside checkPort at any time.
C3_Ceiling == Cardinality(executing) <= SemCap

\* the range is larger than the ceiling, the ceiling is reached and a task
\* waits for a slot
C3_Witness ==
    /\ Cardinality(DOMAIN taskPc) > SemCap
    /\ Cardinality(executing) = SemCap
    /\ \E p \in DOMAIN taskPc : taskPc[p] = "acquire"

\* C4: results is closed only after every task of the range was launched,
\* has sent and has called wg.Done; no send hits the closed channel; sorting
\* and the summary start only when the channel is closed and drained.
C4_CloseAfterAll ==
    /\ closed => /\ port > end
                 /\ \A p \in DOMAIN taskPc : taskPc[p] = "done"
                 /\ wg = 0
    /\ ~panicked
    /\ Collected => /\ closed
                    /\ results = <<>>
                    /\ Len(portResults) = Cardinality(DOMAIN taskPc)

\* the channel is closed while the collector still has results to receive
C4_Witness ==
    /\ closed /\ pcMain = "collect"
    /\ Len(results) >= 2
    /\ portResults # <<>>

ScanDone ==
    /\ Scanning /\ pcMain = "exit" /\ exited /\ ~panicked
    /\ summaryLast(out)
    /\ closed
    /\ sem = 0
    /\ \A p \in DOMAIN taskPc : taskPc[p] = "done"

\* C5: under weakly fair scheduling a started range scan reaches the summary
\* with every task finished, the channel closed and every slot released, and
\* no state of a scan before the end of the process is without an enabled step.
C5_ScanCompletes ==
    /\ [](exited \/ ENABLED NextScan)
    /\ (pcMain = "launch") ~> ScanDone

\* a completed scan of a range larger than the ceiling
C5_Witness ==
    /\ ScanDone
    /\ Cardinality(DOMAIN taskPc) > SemCap
    /\ Len(portResults) = Cardinality(DOMAIN taskPc)

\* main was given a port argument (main.go:28, 37)
hasPortArg(args) ==
    Len(args) >= 1 /\ (hasPidFlag(args) => Len(args) >= 2)

\* the argument is an integer of 1..65535
isPort(a) ==
    /\ ~Atoi(a).err
    /\ Atoi(a).val >= 1
    /\ Atoi(a).val <= 65535

\* the argument is <start>-<end>, two integers with 1 <= start <= end <= 65535
isRange(a) ==
    \E i \in 1..Len(a) :
        LET l == Atoi(SubSeq(a, 1, i - 1))
            r == Atoi(SubSeq(a, i + 1, Len(a)))
        IN  /\ a[i] = "-"
            /\ ~l.err /\ ~r.err
            /\ 1 <= l.val /\ l.val <= r.val /\ r.val <= 65535

probeStarted == pcMain \in {"listen", "close", "print"} \/ DOMAIN binds # {}

scanStarted ==
    \/ pcMain \in {"launch", "collect", "sort", "printscan", "summary"}
    \/ \E i \in 1..Len(out) : out[i].kind \in {"scanning", "summary"}

nothingProbed ==
    /\ DOMAIN binds = {}
    /\ listeners = {}
    /\ wg = 0
    /\ \A p \in DOMAIN taskPc : taskPc[p] = "unlaunched"
    /\ ~scanStarted

rejected ==
    /\ exited /\ exitCode # 0
    /\ out = <<[kind |-> "error"]>>
    /\ nothingProbed

\* C6 as claimed: a port is probed only for an integer of 1..65535, a range
\* is scanned only for a valid <start>-<end>, and every other port argument
\* ends with an error message, a non-zero status and nothing probed.
C6_Original ==
    (pcMain # "main" /\ hasPortArg(osArgs)) =>
        LET a == portArgOf(osArgs) IN
            /\ (probeStarted /\ ~scanStarted) => isPort(a)
            /\ scanStarted => isRange(a)
            /\ ~(isPort(a) \/ isRange(a)) => rejected

\* C6: as C6_Original for every port argument other than -h and --help;
\* for -h and --help main prints the usage and ends with status 0, also
\* with nothing probed.
C6_ValidatedInput ==
    (pcMain # "main" /\ hasPortArg(osArgs)) =>
        LET a == portArgOf(osArgs) IN
            /\ (probeStarted /\ ~scanStarted) => isPort(a)
            /\ scanStarted => isRange(a)
            /\ (~(isPort(a) \/ isRange(a)) /\ a \notin HelpFlags) => rejected
            /\ a \in HelpFlags =>
                 /\ exited /\ exitCode = 0
                 /\ out = <<[kind |-> "usage"]>>
                 /\ nothingProbed

\* the argument 100-50 was rejected
C6_Witness ==
    /\ osArgs = << <<"1", "0", "0", "-", "5", "0">> >>
    /\ rejected
    /\ exitCode = 1

\* number of checkPort calls that have returned
returned == Len(probeLog) + (IF pcMain = "print" THEN 1 ELSE 0)

\* C7: checkPort reports InUse exactly when its one bind attempt fails and
\* leaves no listener behind, so consecutive probes of a port agree and a
\* port found available stays available to the next probe.
C7_ProbeIdempotent ==
    /\ pcMain \in {"print", "probed"} =>
          /\ mainRes.InUse <=> (start \in occupied)
          /\ listeners = {}
          /\ binds[start] = returned
    /\ \A i \in 1..Len(probeLog) :
          /\ probeLog[i].res.Port = start
          /\ probeLog[i].res.InUse = probeLog[1].res.InUse

\* a free port was probed twice and found available both times
C7_Witness ==
    /\ pcMain = "probed"
    /\ Len(probeLog) = 2
    /\ ~probeLog[1].res.InUse
    /\ ~probeLog[2].res.InUse
    /\ binds[start] = 2

\* C8: the summary of a range scan reports total = end-start+1, in use = the
\* number of ports of the range on which the bind fails, available = total
\* minus in use.
C8_Summary ==
    (Scanning /\ pcMain = "exit" /\ ~panicked) =>
        LET l == out[Len(out)] IN
            /\ l.kind = "summary"
            /\ l.total = end - start + 1
            /\ l.inUse = Cardinality(occupied \cap (start..end))
            /\ l.available = l.total - l.inUse
            /\ l.inUse + l.available = l.total

\* three ports, only the middle one occupied: total 3, in use 1, available 2
C8_Witness ==
    /\ Scanning /\ pcMain = "exit"
    /\ end = start + 2
    /\ occupied = {start + 1}
    /\ out[Len(out)].kind = "summary"
    /\ out[Len(out)].total = 3
    /\ out[Len(out)].inUse = 1
    /\ out[Len(out)].available = 2
    /\ inUsePorts(out) = <<start + 1>>

\* C9: after a single-port check the exit status is zero exactly when the
\* port is available.
C9_ExitStatus ==
    (~Scanning /\ exited /\ DOMAIN binds # {}) =>
        (exitCode = 0 <=> ~mainRes.InUse)

sameCase(i, j) ==
    /\ probeLog[i].res.InUse
    /\ ~probeLog[i].getPID
    /\ probeLog[j].getPID
    /\ probeLog[j].res.PID <= 0

\* C10 as claimed: for an in-use port the result of checkPort without
\* resolution differs from its result with a resolution that failed.
C10_Original ==
    \A i \in 1..Len(probeLog) : \A j \in 1..Len(probeLog) :
        sameCase(i, j) => probeLog[i].res # probeLog[j].res

\* C10: for an in-use port the result of checkPort without resolution equals
\* its result with a resolution that failed (PID 0, empty Process); the two
\* cases differ only in what printResult prints for the caller's showPID.
C10_SameResult ==
    \A i \in 1..Len(probeLog) : \A j \in 1..Len(probeLog) :
        sameCase(i, j) =>
            /\ probeLog[i].res = probeLog[j].res
            /\ probeLog[j].res.PID = 0
            /\ probeLog[j].res.Process = <<>>
            /\ printResult(probeLog[i].res, FALSE).owner = <<>>
            /\ printResult(probeLog[j].res, TRUE).owner = <<"unavailable">>

\* an occupied port probed without resolution, then with a resolution that
\* found no owner
C10_Witness ==
    /\ Len(probeLog) = 2
    /\ sameCase(1, 2)
    /\ start \in occupied

\* ------------------------------------------------------------------------
\* What the resolver is to find, stated over the tables as sets

\* the rows of a table that list the port as listening
listeningRows(file, p) ==
    IF ~file.readable THEN {}
    ELSE {i \in 2..Len(file.lines) :
            /\ file.lines[i].nfields >= 10
            /\ file.lines[i].local[Len(file.lines[i].local) - 4] = ":"
            /\ SubSeq(file.lines[i].local, Len(file.lines[i].local) - 3,
                      Len(file.lines[i].local)) = portHex(p)
            /\ file.lines[i].st = "0A"}

minOf(S) == CHOOSE x \in S : \A y \in S : x <= y

\* the inode of the first such row
firstInode(file, p) == file.lines[minOf(listeningRows(file, p))].inode

isPid(name) == name # <<>> /\ \A i \in 1..Len(name) : IsDigit(name[i])

\* the processes whose readable descriptor table has a link socket:[inode]
holders(fs, inode) ==
    IF ~fs.procReadable THEN {}
    ELSE {i \in 1..Len(fs.entries) :
            /\ isPid(fs.entries[i].name)
            /\ fs.entries[i].fdReadable
            /\ \E k \in 1..Len(fs.entries[i].fds) :
                   /\ fs.entries[i].fds[k].ok
                   /\ fs.entries[i].fds[k].link = <<"socket:[", inode, "]">>}

\* the table gives an owner for the port
correlates(fs, file, p) ==
    /\ listeningRows(file, p) # {}
    /\ holders(fs, firstInode(file, p)) # {}

\* one of the failures: table unreadable, no listening row, /proc or the
\* descriptor tables unreadable, inode held by no process; in both tables
resolutionFails(fs, p) == ~correlates(fs, fs.tcp, p) /\ ~correlates(fs, fs.tcp6, p)

produced(p) == taskPc[p] \in {"send", "release", "wgdone", "done"}

\* C11: in a scan with -p, a port whose resolution fails gets the result
\* InUse = TRUE with PID 0 and no process name and the resolver returns no
\* pid; the results of the other ports are Port and InUse as their own bind
\* attempt decides; the scan collects one result per port, never panics,
\* always has a step to take and ends with the summary and status 0.
C11_SoftFailure ==
    /\ \A p \in DOMAIN taskPc :
          produced(p) =>
             /\ taskRes[p].Port = p
             /\ taskRes[p].InUse <=> (p \in occupied)
             /\ (p \in occupied /\ resolutionFails(procfs, p)) =>
                    /\ findProcessByPort(procfs, p) = <<0, <<>>>>
                    /\ taskRes[p].PID = 0
                    /\ taskRes[p].Process = <<>>
             /\ (p \in occupied /\ ~resolutionFails(procfs, p)) =>
                    taskRes[p].PID > 0
    /\ ~panicked
    /\ exited \/ ENABLED NextScan
    /\ Collected =>
          /\ Len(portResults) = end - start + 1
          /\ \A p \in start..end : occurrences(portResults, p) = 1
    /\ exited => (exitCode = 0 /\ summaryLast(out))

\* a finished scan of two occupied ports: the resolution failed for port 1
\* and gave pid 43 for port 2
C11_Witness ==
    /\ exited /\ summaryLast(out)
    /\ occupied = {1, 2}
    /\ resolutionFails(procfs, 1)
    /\ Len(portResults) = 2
    /\ portResults[1] = [Port |-> 1, InUse |-> TRUE, PID |-> 0, Process |-> <<>>]
    /\ portResults[2].PID = 43
    /\ out[2].owner = <<"unavailable">>

\* the first enumerated process holding the inode of the table's first
\* listening row
firstHolder(fs, file, p) ==
    fs.entries[minOf(holders(fs, firstInode(file, p)))]

\* the content of comm without the newline that ends it
nameOf(e) ==
    IF e.comm # <<>> /\ e.comm[Len(e.comm)] = "\n"
    THEN SubSeq(e.comm, 1, Len(e.comm) - 1)
    ELSE e.comm

\* checkPort has returned to main
resolved == pcMain \in {"print", "exit"}

testproc == <<"t", "e", "s", "t", "p", "r", "o", "c">>

\* C12: when a table has a row with the queried port in 4-digit uppercase
\* hex and state 0A, I is the inode of its first such row and a process
\* holds a link socket:[I], the result carries the pid of the first
\* enumerated such process and its command name (the content of comm
\* without the final newline, when comm is readable), and printResult shows
\* both; rows that are not listening, too short or of another port give no
\* owner.
C12_Correlation ==
    resolved =>
        /\ correlates(procfs, procfs.tcp, start) =>
              LET h == firstHolder(procfs, procfs.tcp, start) IN
                /\ mainRes.PID = DecVal(h.name)
                /\ h.commOK => mainRes.Process = nameOf(h)
        /\ (listeningRows(procfs.tcp, start) = {}
                /\ correlates(procfs, procfs.tcp6, start)) =>
              LET h == firstHolder(procfs, procfs.tcp6, start) IN
                /\ mainRes.PID = DecVal(h.name)
                /\ h.commOK => mainRes.Process = nameOf(h)
        /\ (listeningRows(procfs.tcp, start) = {}
                /\ listeningRows(procfs.tcp6, start) = {}) =>
              /\ mainRes.PID = 0
              /\ mainRes.Process = <<>>
        /\ (pcMain = "exit" /\ mainRes.PID > 0) =>
              out[1].owner = <<mainRes.PID, mainRes.Process>>

\* the row of an established connection precedes the listening row with
\* inode 77; process 4321 (testproc) is enumerated before process 45, which
\* holds the same socket
C12_Witness ==
    /\ pcMain = "exit"
    /\ Len(procfs.tcp.lines) = 3
    /\ procfs.tcp.lines[2].st = "01"
    /\ procfs.tcp.lines[3].inode = "77"
    /\ Len(procfs.entries) = 2
    /\ procfs.entries[2].name = <<"4", "5">>
    /\ mainRes = [Port |-> 10, InUse |-> TRUE, PID |-> 4321, Process |-> testproc]
    /\ out[1].owner = <<4321, testproc>>

\* the one call of the resolver
theLookup == CHOOSE l \in lookups : TRUE

\* C13 as claimed: /proc/net/tcp6 is read exactly when /proc/net/tcp has no
\* listening row for the port; when it has one, the result is what the
\* correlation of that row's inode gives, also when it gives nothing; with
\* no listening row in either table there is no pid.
C13_Original ==
    resolved =>
        /\ lookups # {}
        /\ (theLookup.files = <<"tcp", "tcp6">>)
              <=> (listeningRows(procfs.tcp, start) = {})
        /\ listeningRows(procfs.tcp, start) # {} =>
              IF correlates(procfs, procfs.tcp, start)
              THEN mainRes.PID = DecVal(firstHolder(procfs, procfs.tcp, start).name)
              ELSE mainRes.PID = 0
        /\ (listeningRows(procfs.tcp, start) = {}
                /\ listeningRows(procfs.tcp6, start) = {}) => mainRes.PID = 0

\* C13: /proc/net/tcp is read first and /proc/net/tcp6 is read exactly when
\* the search of /proc/net/tcp gave no pid (table unreadable, no listening
\* row, or the inode of its first listening row correlated with no
\* process); within a table the first listening row decides; the result is
\* the owner found through /proc/net/tcp, else the one found through
\* /proc/net/tcp6, else no pid.
C13_Fallback ==
    resolved =>
        /\ lookups # {}
        /\ theLookup.files[1] = "tcp"
        /\ (theLookup.files = <<"tcp", "tcp6">>)
              <=> ~correlates(procfs, procfs.tcp, start)
        /\ (theLookup.files = <<"tcp">>)
              <=> correlates(procfs, procfs.tcp, start)
        /\ correlates(procfs, procfs.tcp, start) =>
              mainRes.PID = DecVal(firstHolder(procfs, procfs.tcp, start).name)
        /\ (~correlates(procfs, procfs.tcp, start)
                /\ correlates(procfs, procfs.tcp6, start)) =>
              mainRes.PID = DecVal(firstHolder(procfs, procfs.tcp6, start).name)
        /\ resolutionFails(procfs, start) =>
              (mainRes.PID = 0 /\ mainRes.Process = <<>>)

\* the IPv4 table lists the port with inode 77, which no process holds; the
\* IPv6 table lists it with inode 88, held by process 44
C13_Witness ==
    /\ resolved
    /\ listeningRows(procfs.tcp, start) # {}
    /\ firstInode(procfs.tcp, start) = "77"
    /\ holders(procfs, "77") = {}
    /\ correlates(procfs, procfs.tcp6, start)
    /\ theLookup.files = <<"tcp", "tcp6">>
    /\ mainRes.PID = 44

\* the process the resolver reports
reported ==
    IF correlates(procfs, procfs.tcp, start)
    THEN firstHolder(procfs, procfs.tcp, start)
    ELSE firstHolder(procfs, procfs.tcp6, start)

\* C14: when the owning process is found and its comm cannot be read, the
\* result carries its pid and the name "unknown".
C14_UnknownName ==
    (resolved /\ ~resolutionFails(procfs, start) /\ ~reported.commOK) =>
        /\ mainRes.PID = DecVal(reported.name)
        /\ mainRes.Process = <<"u", "n", "k", "n", "o", "w", "n">>

holdsReadable(e, inode) ==
    /\ isPid(e.name)
    /\ e.fdReadable
    /\ \E k \in 1..Len(e.fds) :
           e.fds[k].ok /\ e.fds[k].link = <<"socket:[", inode, "]">>

\* C18: with /proc readable and a listening row in /proc/net/tcp, the pid
\* of the first entry that is a pid, has a readable descriptor table and a
\* readable link socket:[inode] is returned, whatever entries without a
\* numeric name, with an unreadable descriptor table or with unreadable
\* links come before it; the search of that table gives no pid only when no
\* entry of /proc qualifies.
C18_SkipUnreadable ==
    (resolved /\ listeningRows(procfs.tcp, start) # {} /\ procfs.procReadable) =>
        LET inode == firstInode(procfs.tcp, start)
            es    == procfs.entries
        IN  /\ \A i \in 1..Len(es) :
                  (/\ holdsReadable(es[i], inode)
                   /\ \A j \in 1..(i - 1) : ~holdsReadable(es[j], inode))
                  => mainRes.PID = DecVal(es[i].name)
            /\ theLookup.files = <<"tcp", "tcp6">> =>
                  \A i \in 1..Len(es) : ~holdsReadable(es[i], inode)

\* process 7, whose descriptor table is unreadable, is enumerated first;
\* process 4321 has an unreadable link before its link to the socket
C18_Witness ==
    /\ resolved
    /\ listeningRows(procfs.tcp, start) # {}
    /\ firstInode(procfs.tcp, start) = "77"
    /\ mainRes.PID = 4321
    /\ Len(procfs.entries) = 2
    /\ ~procfs.entries[1].fdReadable
    /\ procfs.entries[2].name = <<"4", "3", "2", "1">>
    /\ ~procfs.entries[2].fds[1].ok

\* a range scan has printed its summary
Summarised == Scanning /\ pcMain = "exit" /\ ~panicked

\* C15: the duration in the summary is the time from startTime to the
\* moment the last result was received, before sorting and printing.
C15_ElapsedToLastResult ==
    Summarised => out[Len(out)].elapsed = lastRecv - startTime

\* the tasks between the acquire and the release of their slot
holding == {p \in DOMAIN taskPc : taskPc[p] \in {"listen", "close", "send", "release"}}

rank(pc) ==
    CASE pc = "unlaunched" -> 0
      [] pc = "acquire"    -> 1
      [] pc = "listen"     -> 2
      [] pc = "close"      -> 3
      [] pc = "send"       -> 4
      [] pc = "release"    -> 5
      [] pc = "wgdone"     -> 6
      [] pc = "done"       -> 7

bindCount(b, p) == IF p \in DOMAIN b THEN b[p] ELSE 0

\* C16: the number of elements in sem equals the number of tasks between
\* their acquire and their release and is 0 when the scan has printed its
\* summary; a task goes through acquire, probe, send, release and wg.Done in
\* this order and never back; sem rises by one exactly at an acquire and
\* falls by one exactly at a release; a bind attempt and a send are made only
\* by a task that holds a slot, and wg.Done only by one that has released.
C16_SlotDiscipline ==
    /\ [](sem = Cardinality(holding) /\ sem <= SemCap
            /\ (Summarised => (sem = 0 /\ holding = {})))
    /\ [][ \A p \in (DOMAIN taskPc) \cap (DOMAIN taskPc') :
             /\ rank(taskPc'[p]) >= rank(taskPc[p])
             /\ rank(taskPc'[p]) <= rank(taskPc[p]) + 2
             /\ (taskPc[p] # "listen" /\ taskPc'[p] = "listen") =>
                    (taskPc[p] = "acquire" /\ sem' = sem + 1)
             /\ (taskPc[p] = "release" /\ taskPc'[p] # "release") =>
                    (taskPc'[p] = "wgdone" /\ sem' = sem - 1)
             /\ (taskPc[p] = taskPc'[p] /\ Cardinality(holding') = Cardinality(holding))
                    => sem' = sem
             /\ bindCount(binds', p) # bindCount(binds, p) =>
                    (p \in holding /\ bindCount(binds', p) = 1)
             /\ (taskPc[p] # "done" /\ taskPc'[p] = "done") =>
                    (taskPc[p] = "wgdone" /\ wg' = wg - 1 /\ p \notin holding)
             /\ (taskPc[p] = "send" /\ taskPc'[p] # "send") =>
                    (p \in holding' /\ results' = Append(results, taskRes[p]))
      ]_vars

\* every slot is taken, one holder is inside the resolver or the bind of its
\* probe's result (port in use), one has bound a free port, a third task
\* waits
C16_Witness ==
    /\ sem = SemCap
    /\ \E p \in DOMAIN taskPc : taskPc[p] = "send" /\ taskRes[p].InUse
    /\ \E p \in DOMAIN taskPc : taskPc[p] = "close"
    /\ \E p \in DOMAIN taskPc : taskPc[p] = "acquire"

\* the results that exist: returned by checkPort, buffered or collected
allResults ==
    {taskRes[p] : p \in {q \in DOMAIN taskPc : produced(q)}}
    \cup {results[i] : i \in 1..Len(results)}
    \cup {portResults[i] : i \in 1..Len(portResults)}
    \cup (IF pcMain \in {"print", "exit"} /\ DOMAIN binds # {} /\ ~Scanning
          THEN {mainRes} ELSE {})

\* C17: findProcessByPort is called only with -p and only for a port whose
\* bind failed; a result that is not in use, or made without -p, has PID 0
\* and an empty Process; a result with a PID other than 0 is in use, was
\* made with -p by a call of the resolver for its port, and the port's
\* resolution does not fail.
C17_ResolveOnlyOnDemand ==
    /\ \A l \in lookups : showPID /\ l.port \in occupied
    /\ \A r \in allResults :
          /\ ~r.InUse => (r.PID = 0 /\ r.Process = <<>>)
          /\ ~showPID => (r.PID = 0 /\ r.Process = <<>>)
          /\ r.PID # 0 =>
                /\ r.InUse /\ showPID
                /\ r.PID > 0
                /\ \E l \in lookups : l.port = r.Port
                /\ ~resolutionFails(procfs, r.Port)

\* a scan with -p has collected an available port and an occupied one with
\* its owner, pid 43
C17_Witness ==
    /\ showPID /\ Collected
    /\ \E i \in 1..Len(portResults) :
          portResults[i] = [Port |-> 2, InUse |-> TRUE, PID |-> 43,
                            Process |-> <<"s", "h">>]
    /\ \E i \in 1..Len(portResults) : ~portResults[i].InUse
    /\ 2 \in {l.port : l \in lookups}

\* the results the task of port p has sent
sentBy(p) ==
    Cardinality({i \in 1..Len(results) : results[i].Port = p})
    + Cardinality({i \in 1..Len(portResults) : portResults[i].Port = p})

\* C19: results never holds more than end-start+1 elements; each task has
\* sent one result once it is past its send and none before; a task that
\* is at its send finds the channel open with room in the buffer, so the
\* send is enabled, and a task at its release finds an element in sem; the
\* other steps of a task have no condition, so only the acquire can make a
\* task wait.
C19_SendNeverBlocks ==
    (Scanning /\ ~exited) =>
        /\ Len(results) <= end - start + 1
        /\ \A p \in DOMAIN taskPc :
              /\ sentBy(p) = (IF rank(taskPc[p]) >= 5 THEN 1 ELSE 0)
              /\ taskPc[p] = "send" =>
                    /\ ~closed
                    /\ Len(results) < resultsCap
                    /\ ENABLED Send(p)
              /\ taskPc[p] = "release" => sem > 0

\* the collector has received nothing, the buffer holds the results of two
\* tasks and a third task is about to send
C19_Witness ==
    /\ Scanning /\ ~exited
    /\ portResults = <<>>
    /\ Len(results) = 2
    /\ end - start + 1 = 3
    /\ \E p \in DOMAIN taskPc : taskPc[p] = "send"

\* C20: in a range scan every port has at most one bind attempt, made by
\* the task of that port; the listeners held are those of the tasks between
\* bind and close, one per port; a task's result says in use exactly when the
\* port was occupied before the scan, and the in-use lines of the output are
\* the occupied ports of the range.
C20_OneBindPerPort ==
    Scanning =>
        /\ \A p \in DOMAIN binds : binds[p] <= 1 /\ p \in start..end
        /\ \A p \in DOMAIN taskPc :
              bindCount(binds, p) = (IF rank(taskPc[p]) >= 3 THEN 1 ELSE 0)
        /\ listeners = {p \in DOMAIN taskPc : taskPc[p] = "close"}
        /\ listeners \cap occupied = {}
        /\ \A p \in DOMAIN taskPc :
              produced(p) => (taskRes[p].Port = p /\ (taskRes[p].InUse <=> p \in occupied))
        /\ Summarised =>
              {inUsePorts(out)[i] : i \in 1..Len(inUsePorts(out))}
                 = occupied \cap (start..end)

\* two tasks hold listeners on two free ports at the same instant while the
\* third port of the range is occupied
C20_Witness ==
    /\ Scanning
    /\ Cardinality(listeners) = 2
    /\ Cardinality(occupied) = 1
    /\ end - start + 1 = 3

====
